---- MODULE Spec2Model ----
(***************************************************************************)
(* Validation service of the price-oracle AVS example                      *)
(* (Validation_Service/src/monitor.service.js): price reconciliation,      *)
(* position-state evaluation, attestation signing and the orchestrating    *)
(* validatePositionMovement.                                               *)
(*                                                                         *)
(* Numbers.  JavaScript numbers are modelled as exact fixed-point values:  *)
(* a price p of the program is the integer p * PriceScale.  PriceScale is  *)
(* chosen so that 1.0001^tick is exact for every tick of the model.        *)
(* A tolerance is a fraction [num, den].  Floating-point rounding is not   *)
(* modelled.                                                               *)
(*                                                                         *)
(* JavaScript values.  Objects are records, a missing property reads as    *)
(* Undefined, a Promise is a record holding only its internal slots, so    *)
(* that it has no property called success or details.                      *)
(***************************************************************************)
EXTENDS Integers, Sequences, FiniteSets, TLC

VARIABLES
    env,      \* process.env as read at module load (lines 10-12) and in generateAttestation
    store,    \* the attestations dalService.storeAttestation has accepted
    call      \* the last call made to the service: entry point, arguments, outcome

vars == <<env, store, call>>

(***************************************************************************)
(* Bounds of the model                                                     *)
(***************************************************************************)
MaxTick == 1          \* ticks range over 0..MaxTick
MaxSample == 22       \* the reconciler alone is applied to prices 1..MaxSample
MaxStored == 1        \* no call starts once the store holds MaxStored attestations
StartTime == 1000000  \* Math.floor(Date.now() / 1000) of the calls

(***************************************************************************)
(* Program constants                                                       *)
(***************************************************************************)
POSITION_INACTIVITY_DAYS == 7
SecondsPerDay == 24 * 60 * 60
DefaultThreshold == [num |-> 1, den |-> 20]   \* 0.05

(***************************************************************************)
(* JavaScript values                                                       *)
(***************************************************************************)
Undefined == [undefined |-> TRUE]

\* o.name: a property the object does not have reads as undefined
Prop(o, name) == IF name \in DOMAIN o THEN o[name] ELSE Undefined

\* !o.name for a property that is a boolean when present: undefined is falsy
NotProp(o, name) == IF name \in DOMAIN o THEN ~o[name] ELSE TRUE

\* the Promise an async function returns when its body returns v
Fulfilled(v) == [PromiseState |-> "fulfilled", PromiseResult |-> v]

\* completion of a function: a returned value or a thrown error
Returned(v) == [kind |-> "return", value |-> v]
Thrown(msg) == [kind |-> "throw", error |-> msg]

Abs(x) == IF x < 0 THEN -x ELSE x

(***************************************************************************)
(* Tick/price conversion                                                   *)
(***************************************************************************)
RECURSIVE Pow(_, _)
Pow(b, n) == IF n = 0 THEN 1 ELSE b * Pow(b, n - 1)

\* one price unit of the program, in model units
PriceScale == 2 * Pow(10000, MaxTick)

\* Math.pow(1.0001, tick), exact for tick in 0..MaxTick
tickToPrice(tick) == 2 * Pow(10001, tick) * Pow(10000, MaxTick - tick)

(***************************************************************************)
(* Price reconciler                                                        *)
(***************************************************************************)
\* priceDiff > VALIDATION_THRESHOLD, with
\* priceDiff = Math.abs(binancePrice - chainlinkPrice) / chainlinkPrice
PriceDiffExceeds_Inclusive(binancePrice, chainlinkPrice, threshold) ==
    Abs(binancePrice - chainlinkPrice) * threshold.den >= threshold.num * chainlinkPrice

PriceDiffExceeds_PrimaryBase(binancePrice, chainlinkPrice, threshold) ==
    Abs(binancePrice - chainlinkPrice) * threshold.den > threshold.num * binancePrice

PriceDiffExceeds(binancePrice, chainlinkPrice, threshold) ==
    Abs(binancePrice - chainlinkPrice) * threshold.den > threshold.num * chainlinkPrice

\* the difference itself, kept as the exact fraction it is
PriceDiff(binancePrice, chainlinkPrice) ==
    [num |-> Abs(binancePrice - chainlinkPrice), den |-> chainlinkPrice]

\* the value the body of validatePrices returns
validatePricesResult(binancePrice, chainlinkPrice, e) ==
    IF PriceDiffExceeds(binancePrice, chainlinkPrice, e.VALIDATION_THRESHOLD)
    THEN [success |-> FALSE,
          details |-> [binancePrice |-> binancePrice,
                       chainlinkPrice |-> chainlinkPrice,
                       difference |-> PriceDiff(binancePrice, chainlinkPrice),
                       threshold |-> e.VALIDATION_THRESHOLD]]
    ELSE [success |-> TRUE]

\* validatePrices is declared async: what a caller gets is a Promise
validatePrices(binancePrice, chainlinkPrice, e) ==
    Fulfilled(validatePricesResult(binancePrice, chainlinkPrice, e))

(***************************************************************************)
(* Position state evaluator                                                *)
(***************************************************************************)
\* isActive = (currentPrice >= lowerPrice && currentPrice <= upperPrice)
isActive_ExclusiveBounds(position, currentPrice) ==
    /\ currentPrice > tickToPrice(position.lowerTick)
    /\ currentPrice < tickToPrice(position.upperTick)

isActive(position, currentPrice) ==
    /\ currentPrice >= tickToPrice(position.lowerTick)
    /\ currentPrice <= tickToPrice(position.upperTick)

\* inactivityThreshold = POSITION_INACTIVITY_DAYS * 24 * 60 * 60
inactivityThreshold(e) == e.POSITION_INACTIVITY_DAYS * SecondsPerDay

\* inactiveDuration < inactivityThreshold
NotInactiveLongEnough_Exclusive(position, now, e) ==
    now - position.lastActiveTimestamp <= inactivityThreshold(e)

NotInactiveLongEnough(position, now, e) ==
    now - position.lastActiveTimestamp < inactivityThreshold(e)

\* `${lowerPrice}-${upperPrice}`
PriceRangeText(position) ==
    <<tickToPrice(position.lowerTick), "-", tickToPrice(position.upperTick)>>

\* `${n} days`
DaysText(n) == <<n, " days">>

\* the checks of the branch action === "restake", in the order of the code
restakeChecks_RestakedFirst(position, currentPrice, now, e) ==
    IF position.isRestaked
    THEN [success |-> FALSE,
          details |-> [reason |-> "Position is already restaked"]]
    ELSE IF isActive(position, currentPrice)
    THEN [success |-> FALSE,
          details |-> [reason |-> "Position is currently active and cannot be restaked",
                       currentPrice |-> currentPrice,
                       priceRange |-> PriceRangeText(position)]]
    ELSE IF NotInactiveLongEnough(position, now, e)
    THEN [success |-> FALSE,
          details |-> [reason |-> "Position has not been inactive long enough to be restaked",
                       inactiveDuration |->
                           DaysText((now - position.lastActiveTimestamp) \div 86400),
                       required |-> DaysText(e.POSITION_INACTIVITY_DAYS)]]
    ELSE [success |-> TRUE]

restakeChecks(position, currentPrice, now, e) ==
    IF isActive(position, currentPrice)
    THEN [success |-> FALSE,
          details |-> [reason |-> "Position is currently active and cannot be restaked",
                       currentPrice |-> currentPrice,
                       priceRange |-> PriceRangeText(position)]]
    ELSE IF NotInactiveLongEnough(position, now, e)
    THEN [success |-> FALSE,
          details |-> [reason |-> "Position has not been inactive long enough to be restaked",
                       inactiveDuration |->
                           DaysText((now - position.lastActiveTimestamp) \div 86400),
                       required |-> DaysText(e.POSITION_INACTIVITY_DAYS)]]
    ELSE IF position.isRestaked
    THEN [success |-> FALSE,
          details |-> [reason |-> "Position is already restaked"]]
    ELSE [success |-> TRUE]

\* the checks of the branch action === "returnToPool", in the order of the code
returnToPoolChecks(position, currentPrice) ==
    IF ~isActive(position, currentPrice)
    THEN [success |-> FALSE,
          details |-> [reason |-> "Position is not active and should remain restaked",
                       currentPrice |-> currentPrice,
                       priceRange |-> PriceRangeText(position)]]
    ELSE IF ~position.isRestaked
    THEN [success |-> FALSE,
          details |-> [reason |-> "Position is not currently restaked"]]
    ELSE [success |-> TRUE]

validatePositionState_RejectUnknown(position, action, currentPrice, now, e) ==
    IF action = "restake"
    THEN restakeChecks(position, currentPrice, now, e)
    ELSE IF action = "returnToPool"
    THEN returnToPoolChecks(position, currentPrice)
    ELSE [success |-> FALSE,
          details |-> [reason |-> "Unknown action"]]

validatePositionState(position, action, currentPrice, now, e) ==
    IF action = "restake"
    THEN restakeChecks(position, currentPrice, now, e)
    ELSE IF action = "returnToPool"
    THEN returnToPoolChecks(position, currentPrice)
    ELSE [success |-> TRUE]

(***************************************************************************)
(* Collaborators.  What a collaborator does during a call is an input of   *)
(* the call:                                                               *)
(*   chainlink  [status, answer]: aggregator.latestRoundData() answers,    *)
(*              or status "fail": the node or the feed cannot be reached   *)
(*   post       "ok" or "fail": axios.post to the external validation API  *)
(*   store      "ok" or "fail": dalService.storeAttestation                *)
(***************************************************************************)
FeedDecimals == 8
FeedScale == Pow(10, FeedDecimals)

\* parseFloat(ethers.formatUnits(answer, 8)), in model units
formatUnits(answer) ==
    IF PriceScale >= FeedScale
    THEN answer * (PriceScale \div FeedScale)
    ELSE answer \div (FeedScale \div PriceScale)

\* getChainlinkPrice: the price, or the collaborator's error thrown again
getChainlinkPrice(in) ==
    IF in.chainlink.status = "fail"
    THEN Thrown("chainlink unreachable")
    ELSE Returned(formatUnits(in.chainlink.answer))

(***************************************************************************)
(* Attestation signer                                                      *)
(***************************************************************************)
\* ethers.parseUnits(price.toString(), 18): the price as an 18-decimal
\* fixed-point integer, kept as the exact product it stands for
parseUnits(price) == [mantissa |-> price, perUnit |-> PriceScale, decimals |-> 18]

\* ethers.solidityPackedKeccak256 over the six fields, in this order
\* (a collision-free hash: the digest is the packed tuple)
messageHash(a) ==
    <<"RESTAKING_ATTESTATION", a.positionId, a.owner, a.action, a.timestamp,
      parseUnits(a.priceAtValidation)>>

\* the address of the wallet a private key opens
AddressOf(key) == <<"address", key>>

\* wallet.signMessage(ethers.getBytes(messageHash))
signMessage(key, digest) == [signer |-> AddressOf(key), digest |-> digest]

\* the attestationData literal
attestationData(position, action, currentPrice, now, e) ==
    [positionId |-> position.id,
     owner |-> position.owner,
     action |-> action,
     timestamp |-> now,
     priceAtValidation |-> currentPrice,
     validatorAddress |-> e.VALIDATOR_ADDRESS,
     validationDetails |-> [lowerTick |-> position.lowerTick,
                            upperTick |-> position.upperTick,
                            isRestaked |-> position.isRestaked,
                            lastActiveTimestamp |-> position.lastActiveTimestamp]]

\* attestationData.signature = signature
WithSignature(a, signature) ==
    [positionId |-> a.positionId,
     owner |-> a.owner,
     action |-> a.action,
     timestamp |-> a.timestamp,
     priceAtValidation |-> a.priceAtValidation,
     validatorAddress |-> a.validatorAddress,
     validationDetails |-> a.validationDetails,
     signature |-> signature]

WithExternalValidation_DropsSignature(a, data) ==
    [positionId |-> a.positionId,
     owner |-> a.owner,
     action |-> a.action,
     timestamp |-> a.timestamp,
     priceAtValidation |-> a.priceAtValidation,
     validatorAddress |-> a.validatorAddress,
     validationDetails |-> a.validationDetails,
     externalValidation |-> data]

\* attestationData.externalValidation = response.data
WithExternalValidation(a, data) ==
    IF "signature" \in DOMAIN a
    THEN [positionId |-> a.positionId,
          owner |-> a.owner,
          action |-> a.action,
          timestamp |-> a.timestamp,
          priceAtValidation |-> a.priceAtValidation,
          validatorAddress |-> a.validatorAddress,
          validationDetails |-> a.validationDetails,
          signature |-> a.signature,
          externalValidation |-> data]
    ELSE [positionId |-> a.positionId,
          owner |-> a.owner,
          action |-> a.action,
          timestamp |-> a.timestamp,
          priceAtValidation |-> a.priceAtValidation,
          validatorAddress |-> a.validatorAddress,
          validationDetails |-> a.validationDetails,
          externalValidation |-> data]

signStep_RequireKey(a, e) ==
    IF e.VALIDATOR_PRIVATE_KEY = ""
    THEN Thrown("missing private key")
    ELSE IF e.VALIDATOR_PRIVATE_KEY = "malformed"
    THEN Thrown("invalid private key")
    ELSE Returned(WithSignature(a, signMessage(e.VALIDATOR_PRIVATE_KEY, messageHash(a))))

\* if (process.env.VALIDATOR_PRIVATE_KEY) { ... attestationData.signature = signature }
\* new ethers.Wallet throws on a malformed key
signStep(a, e) ==
    IF e.VALIDATOR_PRIVATE_KEY = ""
    THEN Returned(a)
    ELSE IF e.VALIDATOR_PRIVATE_KEY = "malformed"
    THEN Thrown("invalid private key")
    ELSE Returned(WithSignature(a, signMessage(e.VALIDATOR_PRIVATE_KEY, messageHash(a))))

externalStep_RecordFailure(a, e, in) ==
    IF e.VALIDATION_API_URL = ""
    THEN a
    ELSE WithExternalValidation(a, IF in.post = "ok" THEN "response.data" ELSE "unavailable")

\* if (VALIDATION_API_URL) { try { ...externalValidation = response.data } catch { warn } }
externalStep(a, e, in) ==
    IF e.VALIDATION_API_URL # "" /\ in.post = "ok"
    THEN WithExternalValidation(a, "response.data")
    ELSE a

\* await dalService.storeAttestation(attestationData); return attestationData
storeStep_Swallow(a, in, st) ==
    IF in.store = "ok"
    THEN [completion |-> Returned(a), store |-> st \cup {a}]
    ELSE [completion |-> Returned(a), store |-> st]

storeStep_ReturnFirst(a, in, st) ==
    [completion |-> Returned(a), store |-> st]

storeStep(a, in, st) ==
    IF in.store = "ok"
    THEN [completion |-> Returned(a), store |-> st \cup {a}]
    ELSE [completion |-> Thrown("store rejected the write"), store |-> st]

generateAttestation(position, action, currentPrice, now, e, in, st) ==
    LET signed == signStep(attestationData(position, action, currentPrice, now, e), e)
    IN  IF signed.kind = "throw"
        THEN [completion |-> signed, store |-> st, log |-> <<"sign">>]
        ELSE LET a == externalStep(signed.value, e, in)
                 stored == storeStep(a, in, st)
             IN  [completion |-> stored.completion,
                  store |-> stored.store,
                  log |-> (IF e.VALIDATOR_PRIVATE_KEY # "" THEN <<"sign">> ELSE <<>>)
                          \o (IF e.VALIDATION_API_URL # "" THEN <<"post">> ELSE <<>>)
                          \o <<"storeAttestation">>]

(***************************************************************************)
(* Validation orchestrator                                                 *)
(***************************************************************************)
\* if (!priceValid.success)
PriceStepFailed_Never(priceValid) == FALSE

PriceStepFailed(priceValid) == NotProp(priceValid, "success")

\* if (!positionValid.success)
PositionStepFailed(positionValid) == NotProp(positionValid, "success")

\* catch (err) { return { success: false, reason: "Validation error", details: err?.message } }
CatchValidationError_Rethrow(completion) == completion

CatchValidationError(completion) ==
    IF completion.kind = "throw"
    THEN Returned([success |-> FALSE,
                   reason |-> "Validation error",
                   details |-> completion.error])
    ELSE completion

\* the body of the try block
validatePositionMovementTry(position, action, currentPrice, now, e, in, st) ==
    LET fetched == getChainlinkPrice(in)
    IN  IF fetched.kind = "throw"
        THEN [completion |-> fetched, store |-> st, log |-> <<"getChainlinkPrice">>]
        ELSE
        LET priceValid == validatePrices(currentPrice, fetched.value, e)
        IN  IF PriceStepFailed(priceValid)
            THEN [completion |-> Returned([success |-> FALSE,
                                           reason |-> "Price validation failed",
                                           details |-> Prop(priceValid, "details")]),
                  store |-> st,
                  log |-> <<"getChainlinkPrice", "validatePrices">>]
            ELSE
            LET positionValid == validatePositionState(position, action, currentPrice, now, e)
            IN  IF PositionStepFailed(positionValid)
                THEN [completion |-> Returned([success |-> FALSE,
                                               reason |-> "Position state invalid for requested action",
                                               details |-> Prop(positionValid, "details")]),
                      store |-> st,
                      log |-> <<"getChainlinkPrice", "validatePrices", "validatePositionState">>]
                ELSE
                LET g == generateAttestation(position, action, currentPrice, now, e, in, st)
                IN  [completion |-> IF g.completion.kind = "throw"
                                    THEN g.completion
                                    ELSE Returned([success |-> TRUE,
                                                   attestation |-> g.completion.value]),
                     store |-> g.store,
                     log |-> <<"getChainlinkPrice", "validatePrices", "validatePositionState",
                               "generateAttestation">> \o g.log]

validatePositionMovement(position, action, currentPrice, now, e, in, st) ==
    LET t == validatePositionMovementTry(position, action, currentPrice, now, e, in, st)
    IN  [completion |-> CatchValidationError(t.completion),
         store |-> t.store,
         log |-> t.log]

(***************************************************************************)
(* Inputs                                                                  *)
(***************************************************************************)
Ticks == 0 .. MaxTick

Thresholds == {DefaultThreshold, [num |-> 1, den |-> 10]}

Envs ==
    [VALIDATION_THRESHOLD : Thresholds,
     POSITION_INACTIVITY_DAYS : {POSITION_INACTIVITY_DAYS},
     VALIDATOR_PRIVATE_KEY : {"", "K1", "malformed"},
     VALIDATOR_ADDRESS : {AddressOf("K1")},
     VALIDATION_API_URL : {"", "https://validation.example/attest"}]

\* inactive for a second less than, exactly, and a second more than seven days
Durations ==
    {POSITION_INACTIVITY_DAYS * SecondsPerDay + d : d \in {-1, 0, 1}}

\* every position the evaluator is applied to, whatever its tick range
AnyPositions ==
    [id : {"pos1"},
     owner : {"owner1"},
     lowerTick : Ticks,
     upperTick : Ticks,
     isRestaked : BOOLEAN,
     lastActiveTimestamp : {StartTime - d : d \in Durations}]

\* the positions of the position tracker: lowerTick < upperTick
Positions == {p \in AnyPositions : p.lowerTick < p.upperTick}

\* the spec's two action names as the code spells them, and one it does not know
Actions == {"restake", "returnToPool", "Restake"}

\* prices just below, at and just above the price of every tick
AnyPrices == {tickToPrice(t) + d : t \in Ticks, d \in {-1, 0, 1}}

\* prices around the lowest and the highest tick
Prices == {tickToPrice(t) + d : t \in {0, MaxTick}, d \in {-1, 0, 1}}

\* answers of the feed: 1.0 and 1.1, with 8 decimals
Answers == {FeedScale, FeedScale + FeedScale \div 10}

CollaboratorInputs ==
    [chainlink : {[status |-> "fail"]} \cup [status : {"ok"}, answer : Answers],
     post : {"ok", "fail"},
     store : {"ok", "fail"}]

\* the signer is called on its own for fewer positions and prices
SignerPositions ==
    {p \in Positions : /\ p.lowerTick = 0
                       /\ p.upperTick = MaxTick
                       /\ p.lastActiveTimestamp = StartTime - POSITION_INACTIVITY_DAYS * SecondsPerDay}

SignerPrices == {tickToPrice(0), tickToPrice(0) + 1}

SignerInputs == [chainlink : {[status |-> "fail"]}, post : {"ok", "fail"}, store : {"ok", "fail"}]

Samples == 1 .. MaxSample

(***************************************************************************)
(* State machine                                                           *)
(***************************************************************************)
NoCall == [entry |-> "none"]

Init ==
    /\ env \in Envs
    /\ store = {}
    /\ call = NoCall

\* a caller awaits validatePositionMovement(position, action, currentPrice)
CallValidatePositionMovement ==
    /\ call = NoCall
    /\ Cardinality(store) < MaxStored
    /\ \E position \in Positions, action \in Actions, currentPrice \in Prices,
          in \in CollaboratorInputs :
          LET r == validatePositionMovement(position, action, currentPrice,
                                            StartTime, env, in, store)
          IN  /\ call' = [entry |-> "validatePositionMovement",
                          position |-> position,
                          action |-> action,
                          currentPrice |-> currentPrice,
                          now |-> StartTime,
                          in |-> in,
                          storeBefore |-> store,
                          completion |-> r.completion,
                          log |-> r.log]
              /\ store' = r.store
    /\ UNCHANGED env

\* generateAttestation(position, action, currentPrice) called on its own
CallGenerateAttestation ==
    /\ call = NoCall
    /\ Cardinality(store) < MaxStored
    /\ \E position \in SignerPositions, action \in Actions, currentPrice \in SignerPrices,
          in \in SignerInputs :
          LET r == generateAttestation(position, action, currentPrice,
                                       StartTime, env, in, store)
          IN  /\ call' = [entry |-> "generateAttestation",
                          position |-> position,
                          action |-> action,
                          currentPrice |-> currentPrice,
                          now |-> StartTime,
                          in |-> in,
                          storeBefore |-> store,
                          completion |-> r.completion,
                          log |-> r.log]
              /\ store' = r.store
    /\ UNCHANGED env

\* validatePrices(binancePrice, chainlinkPrice) called on its own and awaited
CallValidatePrices ==
    /\ call = NoCall
    /\ \E binancePrice \in Samples, chainlinkPrice \in Samples :
          call' = [entry |-> "validatePrices",
                   binancePrice |-> binancePrice,
                   chainlinkPrice |-> chainlinkPrice,
                   promise |-> validatePrices(binancePrice, chainlinkPrice, env)]
    /\ UNCHANGED <<env, store>>

\* validatePositionState(position, action, currentPrice) called on its own
CallValidatePositionState ==
    /\ call = NoCall
    /\ \E position \in AnyPositions, action \in Actions, currentPrice \in AnyPrices :
          call' = [entry |-> "validatePositionState",
                   position |-> position,
                   action |-> action,
                   currentPrice |-> currentPrice,
                   now |-> StartTime,
                   completion |-> Returned(validatePositionState(position, action,
                                                                 currentPrice, StartTime, env))]
    /\ UNCHANGED <<env, store>>

\* the caller has taken the outcome of its call; the next call can be made
TakeResult ==
    /\ call # NoCall
    /\ call' = NoCall
    /\ UNCHANGED <<env, store>>

Next == CallValidatePositionMovement \/ CallGenerateAttestation \/ TakeResult

\* the orchestrator and the signer
Spec == Init /\ [][Next]_vars

\* the reconciler on its own
NextPrices == CallValidatePrices \/ TakeResult
SpecPrices == Init /\ [][NextPrices]_vars

\* the evaluator on its own
NextState == CallValidatePositionState \/ TakeResult
SpecState == Init /\ [][NextState]_vars

(***************************************************************************)
(* Attestation verifier                                                    *)
(***************************************************************************)
\* if (!attestation.signature)
HasNoSignature_Never(attestation) == FALSE

HasNoSignature(attestation) == "signature" \notin DOMAIN attestation

\* the digest recomputed by verifyAttestation over the six fields;
\* priceAtValidation.toString() throws a TypeError when the field is missing
verifyMessageHash_OwnerFirst(attestation) ==
    IF "priceAtValidation" \notin DOMAIN attestation
    THEN Thrown("Cannot read properties of undefined (reading 'toString')")
    ELSE Returned(<<"RESTAKING_ATTESTATION", attestation.owner, attestation.positionId,
                    attestation.action, attestation.timestamp,
                    parseUnits(attestation.priceAtValidation)>>)

verifyMessageHash(attestation) ==
    IF "priceAtValidation" \notin DOMAIN attestation
    THEN Thrown("Cannot read properties of undefined (reading 'toString')")
    ELSE Returned(<<"RESTAKING_ATTESTATION", attestation.positionId, attestation.owner,
                    attestation.action, attestation.timestamp,
                    parseUnits(attestation.priceAtValidation)>>)

\* the address ECDSA recovery yields for a digest other than the one signed:
\* the address of no key of the model (a collision has negligible probability)
UnrelatedAddress == AddressOf("no known key")

verifyMessage_IgnoresDigest(digest, signature) ==
    IF "signer" \notin DOMAIN signature
    THEN Thrown("invalid signature")
    ELSE Returned(signature.signer)

\* ethers.verifyMessage(ethers.getBytes(messageHash), attestation.signature):
\* throws on bytes that are no signature, recovers the signer for the digest signed
verifyMessage(digest, signature) ==
    IF "signer" \notin DOMAIN signature
    THEN Thrown("invalid signature")
    ELSE IF signature.digest = digest
    THEN Returned(signature.signer)
    ELSE Returned(UnrelatedAddress)

\* await dalService.isApprovedValidator(recoveredAddress)
isApprovedValidator(recoveredAddress, in) ==
    IF in.registry.status = "ok"
    THEN Returned(recoveredAddress \in in.registry.approved)
    ELSE Thrown("validator registry unavailable")

\* the body of the try block; log lists the steps taken after the signature test
verifyAttestationTry(attestation, in) ==
    IF HasNoSignature(attestation)
    THEN [completion |-> Returned([valid |-> FALSE,
                                   reason |-> "No signature on attestation"]),
          log |-> <<>>]
    ELSE LET digest == verifyMessageHash(attestation)
         IN  IF digest.kind = "throw"
             THEN [completion |-> digest, log |-> <<"messageHash">>]
             ELSE LET recovered == verifyMessage(digest.value,
                                                 Prop(attestation, "signature"))
                  IN  IF recovered.kind = "throw"
                      THEN [completion |-> recovered,
                            log |-> <<"messageHash", "verifyMessage">>]
                      ELSE LET approved == isApprovedValidator(recovered.value, in)
                               log == <<"messageHash", "verifyMessage", "isApprovedValidator">>
                           IN  IF approved.kind = "throw"
                               THEN [completion |-> approved, log |-> log]
                               ELSE [completion |->
                                         Returned([valid |-> approved.value,
                                                   signer |-> recovered.value,
                                                   isApprovedValidator |-> approved.value]),
                                     log |-> log]

\* catch (err) { return { valid: false, reason: err.message } }
CatchVerifyError_Rethrow(completion) == completion

CatchVerifyError(completion) ==
    IF completion.kind = "throw"
    THEN Returned([valid |-> FALSE, reason |-> completion.error])
    ELSE completion

verifyAttestation(attestation, in) ==
    LET r == verifyAttestationTry(attestation, in)
    IN  [completion |-> CatchVerifyError(r.completion), log |-> r.log]

\* what the caller of verifyAttestation hands in: a stored attestation as it is,
\* or with its price changed, its price or signature removed, or its signature
\* replaced by bytes that are no signature
Tamperings == {"none", "price", "dropPrice", "dropSignature", "malformedSignature"}

OtherPrice(price) == IF price = tickToPrice(0) THEN tickToPrice(0) + 1 ELSE tickToPrice(0)

Tampered(a, how) ==
    IF how = "price"
    THEN [f \in DOMAIN a |-> IF f = "priceAtValidation"
                             THEN OtherPrice(a.priceAtValidation) ELSE a[f]]
    ELSE IF how = "dropPrice"
    THEN [f \in DOMAIN a \ {"priceAtValidation"} |-> a[f]]
    ELSE IF how = "dropSignature"
    THEN [f \in DOMAIN a \ {"signature"} |-> a[f]]
    ELSE IF how = "malformedSignature" /\ "signature" \in DOMAIN a
    THEN [f \in DOMAIN a |-> IF f = "signature" THEN [bytes |-> "0x00"] ELSE a[f]]
    ELSE a

\* the registry answers with its allow-list, or cannot be reached
RegistryInputs ==
    {[status |-> "fail"]}
        \cup [status : {"ok"}, approved : SUBSET {AddressOf("K1"), AddressOf("K2")}]

VerifierInputs == [registry : RegistryInputs]

CallVerifyAttestation ==
    /\ call = NoCall
    /\ \E original \in store, how \in Tamperings, in \in VerifierInputs :
          LET attestation == Tampered(original, how)
              r == verifyAttestation(attestation, in)
          IN  call' = [entry |-> "verifyAttestation",
                       original |-> original,
                       attestation |-> attestation,
                       in |-> in,
                       completion |-> r.completion,
                       log |-> r.log]
    /\ UNCHANGED <<env, store>>

NextVerifier == CallGenerateAttestation \/ CallVerifyAttestation \/ TakeResult

\* the signer fills the store, the verifier checks what it finds there
SpecVerifier == Init /\ [][NextVerifier]_vars

(***************************************************************************)
(* Standalone price validation                                             *)
(***************************************************************************)
\* await oracleService.getPrice("ETHUSDT"): an object whose price is a decimal string
getPrice(in) ==
    IF in.binance.status = "fail"
    THEN Thrown("binance unreachable")
    ELSE Returned([symbol |-> "ETHUSDT", price |-> [decimalString |-> in.binance.price]])

\* parseFloat of a decimal string: the number it denotes, in units of 1 / PriceScale
parseFloat(text) == text.decimalString

\* (parseFloat(binancePrice.price) + chainlinkPrice) / 2, kept as the exact fraction
averagePrice(binancePrice, chainlinkPrice) ==
    [num |-> parseFloat(binancePrice.price) + chainlinkPrice, den |-> 2]

\* the body of the try block: validatePrices is called without await, so
\* validation is the Promise and validation.success reads a property it lacks
validateMultiplePricesTry(e, in) ==
    LET binancePrice == getPrice(in)
    IN  IF binancePrice.kind = "throw"
        THEN binancePrice
        ELSE LET chainlinkPrice == getChainlinkPrice(in)
             IN  IF chainlinkPrice.kind = "throw"
                 THEN chainlinkPrice
                 ELSE LET validation == validatePrices(parseFloat(binancePrice.value.price),
                                                       chainlinkPrice.value, e)
                      IN  Returned(
                              [success |-> Prop(validation, "success"),
                               averagePrice |-> averagePrice(binancePrice.value,
                                                             chainlinkPrice.value),
                               sources |-> [binance |-> parseFloat(binancePrice.value.price),
                                            chainlink |-> chainlinkPrice.value],
                               validation |-> validation])

\* catch (err) { return { success: false, error: err.message } }
CatchPricesError(completion) ==
    IF completion.kind = "throw"
    THEN Returned([success |-> FALSE, error |-> completion.error])
    ELSE completion

validateMultiplePrices(e, in) == CatchPricesError(validateMultiplePricesTry(e, in))

\* outcomes of the two price sources
PriceSourceInputs ==
    [binance : {[status |-> "fail"]} \cup [status : {"ok"}, price : Prices],
     chainlink : {[status |-> "fail"]} \cup [status : {"ok"}, answer : Answers]]

CallValidateMultiplePrices ==
    /\ call = NoCall
    /\ \E in \in PriceSourceInputs :
          call' = [entry |-> "validateMultiplePrices",
                   in |-> in,
                   completion |-> validateMultiplePrices(env, in)]
    /\ UNCHANGED <<env, store>>

NextMultiple == CallValidateMultiplePrices \/ TakeResult

\* validateMultiplePrices() called on its own
SpecMultiple == Init /\ [][NextMultiple]_vars

(***************************************************************************)
(* Vocabulary of the properties                                            *)
(***************************************************************************)
IsMovementCall == call.entry = "validatePositionMovement"
IsSignerCall == call.entry = "generateAttestation"
IsPricesCall == call.entry = "validatePrices"
IsStateCall == call.entry = "validatePositionState"
IsVerifyCall == call.entry = "verifyAttestation"
IsMultipleCall == call.entry = "validateMultiplePrices"

Range(seq) == {seq[i] : i \in DOMAIN seq}

\* the secondary price was fetched
FetchOk == call.in.chainlink.status = "ok"

\* the two prices of the call agree within the tolerance
PricesAgree ==
    /\ FetchOk
    /\ Abs(call.currentPrice - formatUnits(call.in.chainlink.answer))
           * env.VALIDATION_THRESHOLD.den
       <= env.VALIDATION_THRESHOLD.num * formatUnits(call.in.chainlink.answer)

\* the position of the call meets every precondition of the requested action
PositionEligible ==
    LET outside == \/ call.currentPrice < tickToPrice(call.position.lowerTick)
                   \/ call.currentPrice > tickToPrice(call.position.upperTick)
        inactiveFor == call.now - call.position.lastActiveTimestamp
    IN  /\ call.action = "restake" =>
              /\ outside
              /\ inactiveFor >= env.POSITION_INACTIVITY_DAYS * 86400
              /\ ~call.position.isRestaked
        /\ call.action = "returnToPool" =>
              /\ ~outside
              /\ call.position.isRestaked

\* the call handed an attestation to the store, or built one
SignerReached ==
    \/ "generateAttestation" \in Range(call.log)
    \/ "storeAttestation" \in Range(call.log)
    \/ store # call.storeBefore

\* the call returned to its caller, and what it returned
HasReturned == call.completion.kind = "return"
HasThrown == call.completion.kind = "throw"

\* the attestation the call returned to its caller, if it returned one
ReturnsAttestation ==
    /\ IsSignerCall \/ IsMovementCall
    /\ HasReturned
    /\ IsMovementCall => "attestation" \in DOMAIN call.completion.value

ReturnedAttestation ==
    IF IsSignerCall THEN call.completion.value ELSE call.completion.value.attestation

(***************************************************************************)
(* C1  In a call of validatePositionMovement the signer and the store are  *)
(* reached only if the secondary price was fetched, the two prices agree   *)
(* within the tolerance and the position is eligible for the action, and   *)
(* then only after both checks ran; a call in which one of the two checks  *)
(* fails returns without an attestation and leaves the store as it was.    *)
(***************************************************************************)
C1_SignerOnlyAfterBothChecks ==
    IsMovementCall =>
        /\ SignerReached =>
              /\ PricesAgree
              /\ PositionEligible
              /\ Len(call.log) >= 4
              /\ SubSeq(call.log, 1, 4) = <<"getChainlinkPrice", "validatePrices",
                                            "validatePositionState", "generateAttestation">>
        /\ ~(PricesAgree /\ PositionEligible) =>
              /\ ~SignerReached
              /\ ~ReturnsAttestation
              /\ store = call.storeBefore

\* the prices disagree for a position that is eligible: refused, nothing stored
C1_Witness ==
    /\ IsMovementCall
    /\ FetchOk
    /\ ~PricesAgree
    /\ PositionEligible
    /\ call.in.store = "ok"
    /\ HasReturned
    /\ ~call.completion.value.success
    /\ store = {}

(***************************************************************************)
(* C2  A call of validatePositionMovement whose secondary price is         *)
(* fetched, whose prices agree, whose position is eligible for the action, *)
(* whose key (if any) signs and whose store accepts the write returns      *)
(* {success: true, attestation} with attestation.action the action asked.  *)
(***************************************************************************)
C2_ValidMovementYieldsAttestation ==
    (/\ IsMovementCall
     /\ PricesAgree
     /\ PositionEligible
     /\ env.VALIDATOR_PRIVATE_KEY # "malformed"
     /\ call.in.store = "ok")
    => /\ HasReturned
       /\ call.completion.value.success
       /\ "attestation" \in DOMAIN call.completion.value
       /\ call.completion.value.attestation.action = call.action

(***************************************************************************)
(* C3  validatePositionMovement never throws: it always returns, and when  *)
(* a step inside its try block throws, what it returns is                  *)
(* {success: false, reason: "Validation error", details: the message}.     *)
(***************************************************************************)
C3_MovementNeverThrows ==
    IsMovementCall =>
        /\ HasReturned
        /\ ~FetchOk =>
              call.completion.value = [success |-> FALSE,
                                       reason |-> "Validation error",
                                       details |-> "chainlink unreachable"]
        /\ LET body == validatePositionMovementTry(call.position, call.action,
                                                   call.currentPrice, call.now, env,
                                                   call.in, call.storeBefore)
           IN  body.completion.kind = "throw" =>
                  call.completion.value = [success |-> FALSE,
                                           reason |-> "Validation error",
                                           details |-> body.completion.error]

\* the secondary price source cannot be reached
C3_Witness ==
    /\ IsMovementCall
    /\ ~FetchOk
    /\ HasReturned
    /\ call.completion.value.reason = "Validation error"
    /\ call.completion.value.details = "chainlink unreachable"

C5_ReturnedAttestationIsStored ==
    ReturnsAttestation =>
        /\ call.in.store = "ok"
        /\ Len(call.log) >= 1
        /\ call.log[Len(call.log)] = "storeAttestation"
        /\ ReturnedAttestation \in store
        /\ store = call.storeBefore \cup {ReturnedAttestation}

\* a signed attestation was returned by the signer and is in the store
C5_Witness ==
    /\ IsSignerCall
    /\ HasReturned
    /\ "signature" \in DOMAIN call.completion.value
    /\ call.completion.value \in store

(***************************************************************************)
(* C6  When the price step or the position step of validatePositionMovement*)
(* fails, the returned result carries the details of the failing step as   *)
(* that step produced them; for a Restake of a position that is not        *)
(* restaked and whose range contains the price (the prices agreeing), the  *)
(* details say that the position is currently active.                      *)
(***************************************************************************)
C6_FailingStepDetailsVerbatim ==
    (IsMovementCall /\ FetchOk) =>
        /\ ~PricesAgree =>
              /\ HasReturned
              /\ call.completion.value.details
                     = [binancePrice |-> call.currentPrice,
                        chainlinkPrice |-> formatUnits(call.in.chainlink.answer),
                        difference |-> PriceDiff(call.currentPrice,
                                                 formatUnits(call.in.chainlink.answer)),
                        threshold |-> env.VALIDATION_THRESHOLD]
        /\ (PricesAgree /\ ~PositionEligible) =>
              /\ HasReturned
              /\ call.completion.value.details
                     = validatePositionState(call.position, call.action, call.currentPrice,
                                             call.now, env).details
        /\ (/\ PricesAgree
            /\ call.action = "restake"
            /\ ~call.position.isRestaked
            /\ call.currentPrice >= tickToPrice(call.position.lowerTick)
            /\ call.currentPrice <= tickToPrice(call.position.upperTick)) =>
              /\ HasReturned
              /\ call.completion.value.details
                     = [reason |-> "Position is currently active and cannot be restaked",
                        currentPrice |-> call.currentPrice,
                        priceRange |-> PriceRangeText(call.position)]

(***************************************************************************)
(* C7  The promise validatePrices returns is always fulfilled, never       *)
(* rejected; its value has success = TRUE exactly when                     *)
(* |binancePrice - chainlinkPrice| / chainlinkPrice <= VALIDATION_THRESHOLD*)
(* (equality included), and on failure its details hold both prices, the   *)
(* difference and the threshold.                                           *)
(***************************************************************************)
C7_ReconcilerVerdict ==
    IsPricesCall =>
        /\ call.promise.PromiseState = "fulfilled"
        /\ LET r == call.promise.PromiseResult
               t == env.VALIDATION_THRESHOLD
               within == Abs(call.binancePrice - call.chainlinkPrice) * t.den
                            <= t.num * call.chainlinkPrice
           IN  /\ r.success <=> within
               /\ ~r.success =>
                     r.details = [binancePrice |-> call.binancePrice,
                                  chainlinkPrice |-> call.chainlinkPrice,
                                  difference |->
                                      [num |-> Abs(call.binancePrice - call.chainlinkPrice),
                                       den |-> call.chainlinkPrice],
                                  threshold |-> t]

\* the difference is exactly the tolerance, and the prices are accepted
C7_Witness ==
    /\ IsPricesCall
    /\ call.binancePrice # call.chainlinkPrice
    /\ Abs(call.binancePrice - call.chainlinkPrice) * env.VALIDATION_THRESHOLD.den
           = env.VALIDATION_THRESHOLD.num * call.chainlinkPrice
    /\ call.promise.PromiseResult.success

(***************************************************************************)
(* C8  As the claim has it: reconciling (primary a, secondary b) succeeds  *)
(* exactly when reconciling (primary b, secondary a) succeeds.             *)
(***************************************************************************)
C8_ReconcilerSymmetric ==
    IsPricesCall =>
        (call.promise.PromiseResult.success
            <=> validatePricesResult(call.chainlinkPrice, call.binancePrice, env).success)

(***************************************************************************)
(* C8, amended  When the primary price is the larger of the two and the    *)
(* reconciliation succeeds, it also succeeds with the two prices swapped.  *)
(* (The other way round it can fail: the difference is divided by the      *)
(* secondary price.)                                                       *)
(***************************************************************************)
C8_ReconcilerHalfSymmetric ==
    (/\ IsPricesCall
     /\ call.binancePrice >= call.chainlinkPrice
     /\ call.promise.PromiseResult.success)
    => validatePricesResult(call.chainlinkPrice, call.binancePrice, env).success

\* a larger primary price accepted against a smaller secondary one
C8_Witness ==
    /\ IsPricesCall
    /\ call.binancePrice > call.chainlinkPrice
    /\ call.promise.PromiseResult.success

(***************************************************************************)
(* C9  For the action "restake" validatePositionState succeeds exactly     *)
(* when the price is outside [lowerPrice, upperPrice], the position has    *)
(* been inactive for at least POSITION_INACTIVITY_DAYS days (exactly that  *)
(* long is enough) and the position is not restaked.                       *)
(***************************************************************************)
C9_RestakePreconditions ==
    (IsStateCall /\ call.action = "restake") =>
        (call.completion.value.success
            <=> /\ \/ call.currentPrice < tickToPrice(call.position.lowerTick)
                   \/ call.currentPrice > tickToPrice(call.position.upperTick)
                /\ call.now - call.position.lastActiveTimestamp
                       >= env.POSITION_INACTIVITY_DAYS * 86400
                /\ ~call.position.isRestaked)

\* inactive for exactly the threshold, outside a proper range, not restaked: accepted
C9_Witness ==
    /\ IsStateCall
    /\ call.action = "restake"
    /\ call.position.lowerTick < call.position.upperTick
    /\ call.currentPrice > tickToPrice(call.position.upperTick)
    /\ call.now - call.position.lastActiveTimestamp = env.POSITION_INACTIVITY_DAYS * 86400
    /\ ~call.position.isRestaked
    /\ call.completion.value.success

(***************************************************************************)
(* C10  For the action "returnToPool" validatePositionState succeeds       *)
(* exactly when lowerPrice <= currentPrice <= upperPrice and the position  *)
(* is restaked; a position that is not restaked fails for every price and  *)
(* every tick range.                                                       *)
(***************************************************************************)
C10_ReturnToPoolPreconditions ==
    (IsStateCall /\ call.action = "returnToPool") =>
        /\ call.completion.value.success
              <=> /\ tickToPrice(call.position.lowerTick) <= call.currentPrice
                  /\ call.currentPrice <= tickToPrice(call.position.upperTick)
                  /\ call.position.isRestaked
        /\ ~call.position.isRestaked => ~call.completion.value.success

\* a position in range that is not restaked is refused as not restaked
C10_Witness ==
    /\ IsStateCall
    /\ call.action = "returnToPool"
    /\ ~call.position.isRestaked
    /\ call.currentPrice = tickToPrice(call.position.lowerTick)
    /\ call.position.lowerTick < call.position.upperTick
    /\ ~call.completion.value.success
    /\ call.completion.value.details.reason = "Position is not currently restaked"

(***************************************************************************)
(* C11  Round trip of signer and verifier: for an attestation that         *)
(* generateAttestation signed with the configured key and that reaches     *)
(* verifyAttestation unmodified, the verifier recomputes the digest that   *)
(* was signed and, the registry answering, reports as signer the address   *)
(* of that key and valid = true exactly when the registry approves that    *)
(* address.                                                                *)
(***************************************************************************)
C11_SignVerifyRoundTrip ==
    (/\ IsVerifyCall
     /\ call.attestation = call.original
     /\ "signature" \in DOMAIN call.original) =>
        /\ verifyMessageHash(call.attestation) = Returned(call.original.signature.digest)
        /\ call.in.registry.status = "ok" =>
               /\ HasReturned
               /\ call.completion.value.signer = AddressOf(env.VALIDATOR_PRIVATE_KEY)
               /\ call.completion.value.valid
                      <=> AddressOf(env.VALIDATOR_PRIVATE_KEY) \in call.in.registry.approved

\* an unmodified signed attestation, forwarded after signing, verified as valid
C11_Witness ==
    /\ IsVerifyCall
    /\ call.attestation = call.original
    /\ "signature" \in DOMAIN call.original
    /\ "externalValidation" \in DOMAIN call.original
    /\ call.in.registry.status = "ok"
    /\ call.in.registry.approved = {AddressOf("K1")}
    /\ HasReturned
    /\ call.completion.value.valid
    /\ call.completion.value.signer = AddressOf("K1")

(***************************************************************************)
(* C12  A signed attestation whose priceAtValidation was changed after     *)
(* signing, the signature left as it was, is rejected by verifyAttestation *)
(* with valid: false, returned and not thrown, whatever the signing key    *)
(* (an approved one included), the changed price and the registry's answer.*)
(***************************************************************************)
C12_TamperedPriceRejected ==
    (/\ IsVerifyCall
     /\ "signature" \in DOMAIN call.original
     /\ "signature" \in DOMAIN call.attestation
     /\ call.attestation.signature = call.original.signature
     /\ "priceAtValidation" \in DOMAIN call.attestation
     /\ call.attestation.priceAtValidation # call.original.priceAtValidation) =>
        /\ HasReturned
        /\ ~call.completion.value.valid

\* the signing key is approved, the price was changed: rejected, another signer recovered
C12_Witness ==
    /\ IsVerifyCall
    /\ "signature" \in DOMAIN call.original
    /\ "signature" \in DOMAIN call.attestation
    /\ call.attestation.signature = call.original.signature
    /\ "priceAtValidation" \in DOMAIN call.attestation
    /\ call.attestation.priceAtValidation # call.original.priceAtValidation
    /\ call.in.registry.status = "ok"
    /\ call.original.signature.signer \in call.in.registry.approved
    /\ HasReturned
    /\ ~call.completion.value.valid
    /\ call.completion.value.signer # call.original.signature.signer

(***************************************************************************)
(* C13  An attestation without a signature is rejected at once:            *)
(* verifyAttestation returns {valid: false, reason: "No signature on       *)
(* attestation"} and neither recomputes the digest, nor recovers a signer, *)
(* nor asks the registry.                                                  *)
(***************************************************************************)
C13_UnsignedRejectedAtOnce ==
    (IsVerifyCall /\ "signature" \notin DOMAIN call.attestation) =>
        /\ call.completion = Returned([valid |-> FALSE,
                                       reason |-> "No signature on attestation"])
        /\ call.log = <<>>

\* a signed attestation stripped of its signature, an approving registry at hand
C13_Witness ==
    /\ IsVerifyCall
    /\ "signature" \in DOMAIN call.original
    /\ "signature" \notin DOMAIN call.attestation
    /\ call.in.registry.status = "ok"
    /\ call.original.signature.signer \in call.in.registry.approved
    /\ HasReturned
    /\ ~call.completion.value.valid
    /\ "isApprovedValidator" \notin Range(call.log)

(***************************************************************************)
(* C14  verifyAttestation never throws: an exception raised while the      *)
(* digest is recomputed, while the signer is recovered (bytes that are no  *)
(* signature) or while the registry is asked is caught and returned as     *)
(* {valid: false, reason: <the error's message>}.                          *)
(***************************************************************************)
C14_VerifierNeverThrows ==
    IsVerifyCall =>
        /\ HasReturned
        /\ ("signature" \in DOMAIN call.attestation
                /\ "priceAtValidation" \notin DOMAIN call.attestation)
               => call.completion.value
                      = [valid |-> FALSE,
                         reason |-> "Cannot read properties of undefined (reading 'toString')"]
        /\ ("signature" \in DOMAIN call.attestation
                /\ "priceAtValidation" \in DOMAIN call.attestation
                /\ "signer" \notin DOMAIN call.attestation.signature)
               => call.completion.value = [valid |-> FALSE, reason |-> "invalid signature"]
        /\ ("signature" \in DOMAIN call.attestation
                /\ "priceAtValidation" \in DOMAIN call.attestation
                /\ "signer" \in DOMAIN call.attestation.signature
                /\ call.in.registry.status = "fail")
               => call.completion.value
                      = [valid |-> FALSE, reason |-> "validator registry unavailable"]

\* bytes that are no signature: the recovery's error is returned, the registry not asked
C14_Witness ==
    /\ IsVerifyCall
    /\ "signature" \in DOMAIN call.attestation
    /\ "signer" \notin DOMAIN call.attestation.signature
    /\ call.log = <<"messageHash", "verifyMessage">>
    /\ HasReturned
    /\ call.completion.value = [valid |-> FALSE, reason |-> "invalid signature"]

(***************************************************************************)
(* C15  validateMultiplePrices fetches both prices and returns a result    *)
(* whose success flag is true exactly when the two prices agree within     *)
(* the tolerance (and false when they do not), with averagePrice the       *)
(* arithmetic mean of the two; when a source cannot be reached it returns  *)
(* success: false and does not throw.                                      *)
(***************************************************************************)
C15_MultiplePricesVerdict ==
    IsMultipleCall =>
        LET bothFetched == /\ call.in.binance.status = "ok"
                           /\ call.in.chainlink.status = "ok"
            binance == call.in.binance.price
            chainlink == formatUnits(call.in.chainlink.answer)
            agree == Abs(binance - chainlink) * env.VALIDATION_THRESHOLD.den
                         <= env.VALIDATION_THRESHOLD.num * chainlink
            result == call.completion.value
        IN  /\ HasReturned
            /\ bothFetched =>
                   /\ ToString(result.success) = ToString(agree)
                   /\ result.averagePrice.num = (binance + chainlink)
                   /\ result.averagePrice.den = 2
            /\ ~bothFetched => ToString(result.success) = "FALSE"

(***************************************************************************)
(* C16  validatePositionState checks the preconditions of an action in a   *)
(* fixed order and returns on the first one that fails.  For "restake":    *)
(* price inside the range, then inactivity too short, then already         *)
(* restaked; a position that is both active and already restaked is        *)
(* refused as active.  For "returnToPool": price outside the range, then   *)
(* not restaked.  The reason of a failing result is therefore the reason   *)
(* of the first failing precondition and of no other.                      *)
(***************************************************************************)
C16_FirstFailingPreconditionReported ==
    IsStateCall =>
        LET inRange == /\ tickToPrice(call.position.lowerTick) <= call.currentPrice
                       /\ call.currentPrice <= tickToPrice(call.position.upperTick)
            tooRecent == call.now - call.position.lastActiveTimestamp
                             < env.POSITION_INACTIVITY_DAYS * 86400
            result == call.completion.value
            FailsWith(reason) == /\ ~result.success
                                 /\ result.details.reason = reason
        IN  /\ (call.action = "restake" /\ inRange)
                => FailsWith("Position is currently active and cannot be restaked")
            /\ (call.action = "restake" /\ ~inRange /\ tooRecent)
                => FailsWith("Position has not been inactive long enough to be restaked")
            /\ (call.action = "restake" /\ ~inRange /\ ~tooRecent
                    /\ call.position.isRestaked)
                => FailsWith("Position is already restaked")
            /\ (call.action = "returnToPool" /\ ~inRange)
                => FailsWith("Position is not active and should remain restaked")
            /\ (call.action = "returnToPool" /\ inRange /\ ~call.position.isRestaked)
                => FailsWith("Position is not currently restaked")

\* an active position that is also restaked and too recently active is refused as active
C16_Witness ==
    /\ IsStateCall
    /\ call.action = "restake"
    /\ call.position.isRestaked
    /\ call.position.lowerTick < call.position.upperTick
    /\ tickToPrice(call.position.lowerTick) <= call.currentPrice
    /\ call.currentPrice <= tickToPrice(call.position.upperTick)
    /\ call.now - call.position.lastActiveTimestamp < env.POSITION_INACTIVITY_DAYS * 86400
    /\ ~call.completion.value.success
    /\ call.completion.value.details.reason
           = "Position is currently active and cannot be restaked"

(***************************************************************************)
(* C17  An attestation returned by generateAttestation carries a           *)
(* signature exactly when a signing key is configured.  With no key        *)
(* configured the attestation is still built from the position, the        *)
(* action and the price, handed to the store and returned, unsigned.       *)
(***************************************************************************)
C17_SignatureIffKeyConfigured ==
    IsSignerCall =>
        /\ HasReturned =>
               ("signature" \in DOMAIN call.completion.value
                    <=> env.VALIDATOR_PRIVATE_KEY # "")
        /\ env.VALIDATOR_PRIVATE_KEY = "" =>
               /\ "storeAttestation" \in Range(call.log)
               /\ "sign" \notin Range(call.log)
               /\ call.in.store = "ok" =>
                      /\ HasReturned
                      /\ "signature" \notin DOMAIN call.completion.value
                      /\ call.completion.value.positionId = call.position.id
                      /\ call.completion.value.owner = call.position.owner
                      /\ call.completion.value.action = call.action
                      /\ call.completion.value.priceAtValidation = call.currentPrice
                      /\ call.completion.value \in store

\* no key configured: an unsigned attestation was stored and returned
C17_Witness ==
    /\ IsSignerCall
    /\ env.VALIDATOR_PRIVATE_KEY = ""
    /\ HasReturned
    /\ "signature" \notin DOMAIN call.completion.value
    /\ call.completion.value \in store
    /\ call.completion.value \notin call.storeBefore

(***************************************************************************)
(* C18  When an external validation endpoint is configured and the         *)
(* forwarding request fails, generateAttestation does not abort: the       *)
(* attestation has no externalValidation field, is still handed to the     *)
(* store and returned, and is field for field (signature included) the     *)
(* attestation the same call yields with no endpoint configured.           *)
(***************************************************************************)
C18_ForwardingFailureIgnored ==
    (/\ IsSignerCall
     /\ env.VALIDATION_API_URL # ""
     /\ call.in.post = "fail"
     /\ env.VALIDATOR_PRIVATE_KEY # "malformed") =>
        LET noEndpoint == [VALIDATION_THRESHOLD |-> env.VALIDATION_THRESHOLD,
                           POSITION_INACTIVITY_DAYS |-> env.POSITION_INACTIVITY_DAYS,
                           VALIDATOR_PRIVATE_KEY |-> env.VALIDATOR_PRIVATE_KEY,
                           VALIDATOR_ADDRESS |-> env.VALIDATOR_ADDRESS,
                           VALIDATION_API_URL |-> ""]
            without == generateAttestation(call.position, call.action, call.currentPrice,
                                           call.now, noEndpoint, call.in, call.storeBefore)
        IN  /\ {"post", "storeAttestation"} \subseteq Range(call.log)
            /\ call.in.store = "ok" =>
                   /\ HasReturned
                   /\ "externalValidation" \notin DOMAIN call.completion.value
                   /\ call.completion.value \in store
                   /\ call.completion.value = without.completion.value
                   /\ ("signature" \in DOMAIN call.completion.value)
                          <=> (env.VALIDATOR_PRIVATE_KEY # "")

\* a signed attestation stored and returned although the forwarding request failed
C18_Witness ==
    /\ IsSignerCall
    /\ env.VALIDATION_API_URL # ""
    /\ call.in.post = "fail"
    /\ HasReturned
    /\ "signature" \in DOMAIN call.completion.value
    /\ "externalValidation" \notin DOMAIN call.completion.value
    /\ call.completion.value \in store
    /\ call.completion.value \notin call.storeBefore

(***************************************************************************)
(* C19  (as stated) Once the signature has been attached in                *)
(* generateAttestation, no field of the attestation is added, removed or   *)
(* changed before it is stored and returned: the attestation returned is   *)
(* the attestation as it was signed.                                       *)
(***************************************************************************)
C19_NothingChangesAfterSigning ==
    (IsSignerCall /\ HasReturned /\ env.VALIDATOR_PRIVATE_KEY # "") =>
        call.completion.value
            = signStep(attestationData(call.position, call.action, call.currentPrice,
                                       call.now, env), env).value

(***************************************************************************)
(* C19  (amended) Once the signature has been attached, no field present   *)
(* at signing, the signature included, is removed or changed before the    *)
(* attestation is stored and returned; the one field that may be added     *)
(* after signing is externalValidation, added exactly when an endpoint is  *)
(* configured and answers.  What is stored is what is returned.            *)
(***************************************************************************)
C19_SignedFieldsKeptAfterSigning ==
    (IsSignerCall /\ HasReturned /\ env.VALIDATOR_PRIVATE_KEY # "") =>
        LET signed == signStep(attestationData(call.position, call.action,
                                               call.currentPrice, call.now, env), env).value
            returned == call.completion.value
        IN  /\ "signature" \in DOMAIN signed
            /\ \A f \in DOMAIN signed : f \in DOMAIN returned /\ returned[f] = signed[f]
            /\ DOMAIN returned \ DOMAIN signed \subseteq {"externalValidation"}
            /\ "externalValidation" \in DOMAIN returned
                   <=> (env.VALIDATION_API_URL # "" /\ call.in.post = "ok")
            /\ returned \in store

\* a signed attestation that gained externalValidation after signing, stored and returned
C19_Witness ==
    /\ IsSignerCall
    /\ HasReturned
    /\ "signature" \in DOMAIN call.completion.value
    /\ "externalValidation" \in DOMAIN call.completion.value
    /\ call.completion.value.signature.digest
           = <<"RESTAKING_ATTESTATION", call.position.id, call.position.owner, call.action,
               call.now, parseUnits(call.currentPrice)>>
    /\ call.completion.value \in store

(***************************************************************************)
(* C20  For an action other than "restake" and "returnToPool"              *)
(* validatePositionState checks no precondition and returns success: true  *)
(* for every position and every price, so the position-state step never    *)
(* refuses such an action: no validatePositionMovement call with such an   *)
(* action ends in "Position state invalid for requested action".           *)
(***************************************************************************)
C20_UnknownActionPassesPositionState ==
    /\ (IsStateCall /\ call.action \notin {"restake", "returnToPool"})
           => call.completion.value = [success |-> TRUE]
    /\ (IsMovementCall /\ call.action \notin {"restake", "returnToPool"}
            /\ HasReturned /\ ~call.completion.value.success)
           => call.completion.value.reason
                  # "Position state invalid for requested action"

\* an unrecognised action accepted for a restaked position whose range holds the price
C20_Witness ==
    /\ IsStateCall
    /\ call.action \notin {"restake", "returnToPool"}
    /\ call.position.isRestaked
    /\ tickToPrice(call.position.lowerTick) <= call.currentPrice
    /\ call.currentPrice <= tickToPrice(call.position.upperTick)
    /\ call.now - call.position.lastActiveTimestamp < env.POSITION_INACTIVITY_DAYS * 86400
    /\ call.completion.value.success

====
